---------------------------- MODULE Spec2Model ----------------------------
(***************************************************************************)
(* RoadTerm (src/src/roadterm/term.py): Terminal, ProgressBar, Spinner and *)
(* Box as a state machine.                                                 *)
(*                                                                         *)
(* Text is a sequence of characters, each character a string.  Characters  *)
(* outside printable ASCII are written by name: "ESC" is 0x1B, "BEL" is    *)
(* 0x07, "\n" is the newline and "U+2588" is the character with that code  *)
(* point.  None is the empty tuple <<>>, a given argument v is <<v>>.      *)
(***************************************************************************)
EXTENDS Integers, Sequences, FiniteSets

VARIABLES
    isatty,     \* what stream.isatty() answers now (the environment)
    is_tty,     \* Terminal._is_tty
    stream,     \* everything written to Terminal.stream, in order
    pb,         \* ProgressBar: total, width, current, started
    sp,         \* Spinner: message, frame
    call,       \* the last call: its name, arguments and the state it began in
    ret,        \* what the last call returned (<<>> for None and for "")
    raised,     \* the exception the last call raised, "" when it returned
    fuel        \* calls the caller still makes

vars == <<isatty, is_tty, stream, pb, sp, call, ret, raised, fuel>>

---------------------------------------------------------------------------
(* Bounds of the model. *)

MaxCalls == 2        \* calls in a run of the whole toolkit
MaxUpdates == 3      \* calls in a run of the ProgressBar
MaxRedirectCalls == 1 \* calls in a run on a redirected stream
MaxSpins == 11       \* calls in a run of the Spinner
MaxCoord == 1        \* rows, columns and distances 0..MaxCoord
MaxTotal == 1        \* ProgressBar totals 0..MaxTotal in a run of the toolkit
MaxBarTotal == 22    \* ProgressBar totals -1..MaxBarTotal in a single update
MaxBarWidth == 22    \* ProgressBar widths 0..MaxBarWidth in a single update
MaxContent == 3      \* characters of a Box content
MaxBoxWidth == 5     \* Box widths -1..MaxBoxWidth

---------------------------------------------------------------------------
(* Text. *)

Digit == <<"0", "1", "2", "3", "4", "5", "6", "7", "8", "9">>

RECURSIVE NatStr(_)
NatStr(n) ==
    IF n < 10 THEN <<Digit[n + 1]>>
    ELSE NatStr(n \div 10) \o <<Digit[(n % 10) + 1]>>

\* str(n) of an int
str(n) == IF n < 0 THEN <<"-">> \o NatStr(-n) ELSE NatStr(n)

DigitValue(c) == (CHOOSE i \in 1..10 : Digit[i] = c) - 1

RECURSIVE int_of_str(_)
\* int(s) of a string of decimal digits
int_of_str(s) ==
    IF Len(s) = 0 THEN 0
    ELSE 10 * int_of_str(SubSeq(s, 1, Len(s) - 1)) + DigitValue(s[Len(s)])

RECURSIVE Repeat(_, _)
\* c * n of a one-character string: empty when n <= 0
Repeat(c, n) == IF n <= 0 THEN <<>> ELSE <<c>> \o Repeat(c, n - 1)

RECURSIVE join(_, _)
\* sep.join(parts)
join(sep, parts) ==
    IF Len(parts) = 0 THEN <<>>
    ELSE IF Len(parts) = 1 THEN parts[1]
    ELSE parts[1] \o sep \o join(sep, Tail(parts))

RECURSIVE split(_, _)
\* s.split(sep) for a one-character sep: always at least one piece
split(s, sep) ==
    IF \A i \in 1..Len(s) : s[i] # sep THEN <<s>>
    ELSE LET k == CHOOSE i \in 1..Len(s) :
                      s[i] = sep /\ \A j \in 1..(i - 1) : s[j] # sep
         IN  <<SubSeq(s, 1, k - 1)>> \o split(SubSeq(s, k + 1, Len(s)), sep)

\* s.ljust(n): padded with spaces on the right, never cut
ljust(s, n) == s \o Repeat(" ", n - Len(s))

\* s.rjust(n), the padding of a format field of minimum width n
rjust(s, n) == Repeat(" ", n - Len(s)) \o s

Has(s, c) == \E i \in 1..Len(s) : s[i] = c

---------------------------------------------------------------------------
(* Color and Style: the enumerations' values. *)

Color == [BLACK |-> <<"3", "0">>, RED |-> <<"3", "1">>, GREEN |-> <<"3", "2">>,
          YELLOW |-> <<"3", "3">>, BLUE |-> <<"3", "4">>,
          MAGENTA |-> <<"3", "5">>, CYAN |-> <<"3", "6">>,
          WHITE |-> <<"3", "7">>, DEFAULT |-> <<"3", "9">>,
          BRIGHT_BLACK |-> <<"9", "0">>, BRIGHT_RED |-> <<"9", "1">>,
          BRIGHT_GREEN |-> <<"9", "2">>, BRIGHT_YELLOW |-> <<"9", "3">>,
          BRIGHT_BLUE |-> <<"9", "4">>, BRIGHT_MAGENTA |-> <<"9", "5">>,
          BRIGHT_CYAN |-> <<"9", "6">>, BRIGHT_WHITE |-> <<"9", "7">>]

Style == [RESET |-> <<"0">>, BOLD |-> <<"1">>, DIM |-> <<"2">>,
          ITALIC |-> <<"3">>, UNDERLINE |-> <<"4">>, BLINK |-> <<"5">>,
          REVERSE |-> <<"7">>, HIDDEN |-> <<"8">>, STRIKETHROUGH |-> <<"9">>]

Colors == DOMAIN Color
Styles == DOMAIN Style

---------------------------------------------------------------------------
(* Terminal.  An operation that writes is a function from the stream's     *)
(* contents to its contents afterwards.                                    *)

ESC == "ESC"
CSI == <<ESC, "[">>
BEL == "BEL"

\* write: stream.write(text); stream.flush()
write(s, text) == s \o text

writeln(s, text) == write(s, text \o <<"\n">>)

_escape_live(code) == IF isatty THEN CSI \o code ELSE <<>>
_escape_always(code) == CSI \o code
_escape(code) == IF is_tty THEN CSI \o code ELSE <<>>

move(s, row, col) == write(s, _escape(str(row + 1) \o <<";">> \o str(col + 1) \o <<"H">>))
clear(s) == move(write(s, _escape(<<"2", "J">>)), 0, 0)
clear_line(s) == write(s, _escape(<<"2", "K">>))
clear_to_end(s) == write(s, _escape(<<"0", "J">>))
move_up(s, n) == write(s, _escape(str(n) \o <<"A">>))
move_down(s, n) == write(s, _escape(str(n) \o <<"B">>))
move_right(s, n) == write(s, _escape(str(n) \o <<"C">>))
move_left(s, n) == write(s, _escape(str(n) \o <<"D">>))
move_to_column(s, col) == write(s, _escape(str(col + 1) \o <<"G">>))
save_cursor(s) == write(s, _escape(<<"s">>))
restore_cursor(s) == write(s, _escape(<<"u">>))
hide_cursor(s) == write(s, _escape(<<"?", "2", "5", "l">>))
show_cursor(s) == write(s, _escape(<<"?", "2", "5", "h">>))

set_title_tty_only(s, title) ==
    IF is_tty THEN write(s, <<ESC, "]", "0", ";">> \o title \o <<BEL>>) ELSE s
set_title(s, title) == write(s, <<ESC, "]", "0", ";">> \o title \o <<BEL>>)

bell(s) == write(s, <<BEL>>)

\* style(*styles): styles is a tuple of Style names
style(styles) ==
    IF ~is_tty THEN <<>>
    ELSE CSI \o join(<<";">>, [i \in 1..Len(styles) |-> Style[styles[i]]]) \o <<"m">>

fg(color) == IF ~is_tty THEN <<>> ELSE CSI \o Color[color] \o <<"m">>

bg(color) ==
    IF ~is_tty THEN <<>>
    ELSE LET code == str(int_of_str(Color[color]) + 10)
         IN  CSI \o code \o <<"m">>

rgb_fg(r, g, b) ==
    IF ~is_tty THEN <<>>
    ELSE CSI \o <<"3", "8", ";", "2", ";">> \o str(r) \o <<";">> \o str(g)
             \o <<";">> \o str(b) \o <<"m">>

rgb_bg(r, g, b) ==
    IF ~is_tty THEN <<>>
    ELSE CSI \o <<"4", "8", ";", "2", ";">> \o str(r) \o <<";">> \o str(g)
             \o <<";">> \o str(b) \o <<"m">>

reset == IF ~is_tty THEN <<>> ELSE CSI \o <<"0", "m">>

colored_no_reset(text, fgc, bgc, styles) ==
    IF ~is_tty THEN text
    ELSE (IF Len(styles) > 0 THEN style(styles) ELSE <<>>)
         \o (IF fgc # <<>> THEN fg(fgc[1]) ELSE <<>>)
         \o (IF bgc # <<>> THEN bg(bgc[1]) ELSE <<>>)
         \o text
         \o (IF fgc # <<>> \/ bgc # <<>> \/ Len(styles) > 0 THEN reset ELSE <<>>)

\* colored(text, fg, bg, *styles): fg and bg are <<>> (None) or <<name>>
colored(text, fgc, bgc, styles) ==
    IF ~is_tty THEN text
    ELSE LET p0 == <<>>
             p1 == IF Len(styles) > 0 THEN p0 \o style(styles) ELSE p0
             p2 == IF fgc # <<>> THEN p1 \o fg(fgc[1]) ELSE p1
             p3 == IF bgc # <<>> THEN p2 \o bg(bgc[1]) ELSE p2
         IN  p3 \o text \o reset

---------------------------------------------------------------------------
(* Python's float: an IEEE 754 double, as a sign and a binary significand. *)
(* A nonzero value is bits (Prec binary digits, the first of them 1) times *)
(* 2^exp, exp the weight of the last digit; zero has no digits.  ok is     *)
(* FALSE for the result of an operation that raises ZeroDivisionError.     *)
(* Every operation rounds its exact result to nearest, ties to even.       *)

Prec == 53

Float(neg, bits, exp) == [ok |-> TRUE, neg |-> neg, bits |-> bits, exp |-> exp]
Zero(neg) == Float(neg, <<>>, 0)
ZeroDivisionError == [ok |-> FALSE, neg |-> FALSE, bits |-> <<>>, exp |-> 0]

RECURSIVE BitsOfNat(_)
\* the binary digits of n, most significant first; none for 0
BitsOfNat(n) == IF n = 0 THEN <<>> ELSE BitsOfNat(n \div 2) \o <<n % 2>>

RECURSIVE NatOfBits(_)
NatOfBits(b) ==
    IF Len(b) = 0 THEN 0 ELSE 2 * NatOfBits(SubSeq(b, 1, Len(b) - 1)) + b[Len(b)]

RECURSIVE Inc(_)
\* b + 1 on binary digits; one digit longer when b is all ones
Inc(b) ==
    IF Len(b) = 0 THEN <<1>>
    ELSE IF b[Len(b)] = 0 THEN SubSeq(b, 1, Len(b) - 1) \o <<1>>
    ELSE Inc(SubSeq(b, 1, Len(b) - 1)) \o <<0>>

\* The digits kept, rounded up when up: a carry out of the first digit
\* makes the value a power of two, one exponent higher.
Rounded(neg, kept, exp, up) ==
    IF ~up THEN Float(neg, kept, exp)
    ELSE LET b == Inc(kept)
         IN  IF Len(b) > Len(kept)
             THEN Float(neg, SubSeq(b, 1, Len(kept)), exp + 1)
             ELSE Float(neg, b, exp)

RECURSIVE DivBits(_, _, _, _, _)
\* Long division: acc holds the quotient's digits from its first 1 on, the
\* last of weight 2^exp, and r < t is the remainder.  At Prec digits the
\* rest of the quotient is r/t of the last digit's weight.
DivBits(neg, r, t, acc, exp) ==
    IF Len(acc) = Prec
    THEN Rounded(neg, acc, exp,
                 2 * r > t \/ (2 * r = t /\ acc[Prec] = 1))
    ELSE LET b == IF 2 * r >= t THEN 1 ELSE 0
             next == [r |-> 2 * r - b * t,
                      acc |-> IF Len(acc) = 0 /\ b = 0 THEN acc ELSE Append(acc, b),
                      exp |-> exp - 1]
         IN  DivBits(neg, next.r, t, next.acc, next.exp)

Abs(n) == IF n < 0 THEN -n ELSE n

\* a / b of two ints (true division), for |a| < 2^Prec
truediv(a, b) ==
    IF b = 0 THEN ZeroDivisionError
    ELSE IF a = 0 THEN Zero(FALSE)
    ELSE DivBits((a < 0) # (b < 0), Abs(a) % Abs(b), Abs(b),
                 BitsOfNat(Abs(a) \div Abs(b)), 0)

RECURSIVE MulFrom(_, _, _, _)
\* the digits of b[1..i] * w + carry
MulFrom(b, i, w, carry) ==
    IF i = 0 THEN BitsOfNat(carry)
    ELSE LET d == b[i] * w + carry
         IN  IF d % 2 = 1 THEN MulFrom(b, i - 1, w, d \div 2) \o <<1>>
             ELSE MulFrom(b, i - 1, w, d \div 2) \o <<0>>

\* the exact product's digits cut to Prec, rounded on what is cut
RoundBits(neg, b, exp) ==
    IF Len(b) <= Prec THEN Float(neg, b, exp)
    ELSE LET kept == SubSeq(b, 1, Prec)
             cut == SubSeq(b, Prec + 1, Len(b))
             sticky == \E i \in 2..Len(cut) : cut[i] = 1
         IN  Rounded(neg, kept, exp + Len(cut),
                     cut[1] = 1 /\ (sticky \/ kept[Prec] = 1))

\* n * x of an int n and a float x (the int converts exactly)
mul(n, x) ==
    IF ~x.ok THEN x
    ELSE IF n = 0 \/ Len(x.bits) = 0 THEN Zero((n < 0) # x.neg)
    ELSE RoundBits((n < 0) # x.neg, MulFrom(x.bits, Prec, Abs(n), 0), x.exp)

\* The digits of |x| with the binary point made explicit: the integer
\* part's digits and the fraction's digits.
IntPart(b, exp) ==
    IF exp >= 0 THEN b \o [i \in 1..exp |-> 0]
    ELSE IF Len(b) + exp <= 0 THEN <<>>
    ELSE SubSeq(b, 1, Len(b) + exp)

FracPart(b, exp) ==
    IF exp >= 0 THEN <<>>
    ELSE IF Len(b) + exp <= 0 THEN [i \in 1..(-(Len(b) + exp)) |-> 0] \o b
    ELSE SubSeq(b, Len(b) + exp + 1, Len(b))

\* int(x): the integer part, toward zero
int(x) ==
    LET n == NatOfBits(IntPart(x.bits, x.exp))
    IN  IF x.neg THEN -n ELSE n

\* format(x, "5.1f"): x to one decimal, the exact value rounded to nearest,
\* ties to even, with the sign of x, right-aligned in 5 characters
format_5_1f(x) ==
    LET t == MulFrom(x.bits, Len(x.bits), 10, 0)      \* 10 * |x|, exact
        n == NatOfBits(IntPart(t, x.exp))
        f == FracPart(t, x.exp)
        half == Len(f) > 0 /\ f[1] = 1
        more == \E i \in 2..Len(f) : f[i] = 1
        tenths == IF half /\ (more \/ n % 2 = 1) THEN n + 1 ELSE n
        digits == str(tenths \div 10) \o <<".">> \o str(tenths % 10)
    IN  rjust((IF x.neg THEN <<"-">> ELSE <<>>) \o digits, 5)

---------------------------------------------------------------------------
(* ProgressBar.  A method is a function from the object and the stream to  *)
(* the object, the stream and the exception raised, if any.                *)

\* width: int = 40
DefaultWidth == 40

FILLED == "U+2588"
UNFILLED == "U+2591"

ProgressBar(total, width) ==
    [total |-> total, width |-> width, current |-> 0, started |-> FALSE]

\* pct = self.current / self.total if self.total > 0 else 0
\* (the int 0 multiplies and formats as the float 0.0 does)
pct_unguarded(p) == truediv(p.current, p.total)
pct_int_division(p) ==
    IF p.total > 0
    THEN LET q == p.current \div p.total
         IN  IF q = 0 THEN Zero(FALSE)
             ELSE Float(q < 0, BitsOfNat(Abs(q)) \o [i \in 1..(Prec - Len(BitsOfNat(Abs(q)))) |-> 0],
                        Len(BitsOfNat(Abs(q))) - Prec)
    ELSE Zero(FALSE)
pct_of(p) == IF p.total > 0 THEN truediv(p.current, p.total) ELSE Zero(FALSE)

\* filled = int(self.width * pct)
filled_of(p, pct) == int(mul(p.width, pct))

\* bar = FILLED * filled + UNFILLED * (self.width - filled)
bar_of(p, filled) == Repeat(FILLED, filled) \o Repeat(UNFILLED, p.width - filled)

\* line = f"[{bar}] {pct * 100:5.1f}%", then f" {message}" if message
line_of(p, pct, message) ==
    <<"[">> \o bar_of(p, filled_of(p, pct)) \o <<"]", " ">>
        \o format_5_1f(mul(100, pct)) \o <<"%">>
        \o (IF Len(message) > 0 THEN <<" ">> \o message ELSE <<>>)

update_always_erases(p, s, current, message) ==
    LET p1 == [p EXCEPT !.current = IF current # <<>> THEN current[1] ELSE @ + 1,
                        !.started = TRUE]
        s1 == clear_line(move_up(s, 1))
        pct == pct_of(p1)
    IN  [pb |-> p1, stream |-> writeln(s1, line_of(p1, pct, message)), raised |-> ""]

\* update(current, message): current is <<>> (None) or <<n>>
update(p, s, current, message) ==
    LET p1 == [p EXCEPT !.current = IF current # <<>> THEN current[1] ELSE @ + 1]
        s1 == IF p1.started THEN clear_line(move_up(s, 1)) ELSE s
        p2 == [p1 EXCEPT !.started = TRUE]
        pct == pct_of(p2)
    IN  IF ~pct.ok
        THEN [pb |-> p2, stream |-> s1, raised |-> "ZeroDivisionError"]
        ELSE [pb |-> p2, stream |-> writeln(s1, line_of(p2, pct, message)),
              raised |-> ""]

finish_keeps_current(p, s, message) == update(p, s, <<p.current>>, message)
finish(p, s, message) == update(p, s, <<p.total>>, message)

---------------------------------------------------------------------------
(* Spinner. *)

FRAMES == <<"U+280B", "U+2819", "U+2839", "U+2838", "U+283C",
            "U+2834", "U+2826", "U+2827", "U+2807", "U+280F">>

CHECK == "U+2713"

Spinner(message) == [message |-> message, frame |-> 0, running |-> FALSE]

spin_frame_stuck(k, s) ==
    LET s1 == clear_line(move_to_column(s, 0))
        frame == FRAMES[(k.frame % Len(FRAMES)) + 1]
    IN  [sp |-> k, stream |-> write(s1, <<frame, " ">> \o k.message)]

spin(k, s) ==
    LET s1 == clear_line(move_to_column(s, 0))
        frame == FRAMES[(k.frame % Len(FRAMES)) + 1]
    IN  [sp |-> [k EXCEPT !.frame = @ + 1],
         stream |-> write(s1, <<frame, " ">> \o k.message)]

\* stop(message): message is <<>> (None) or <<text>>
stop(k, s, message) ==
    LET s1 == clear_line(move_to_column(s, 0))
    IN  [sp |-> k,
         stream |-> IF message # <<>> /\ Len(message[1]) > 0
                    THEN writeln(s1, <<CHECK, " ">> \o message[1])
                    ELSE s1]

---------------------------------------------------------------------------
(* Box. *)

STYLES == [single |-> <<"U+250C", "U+2510", "U+2514", "U+2518", "U+2500", "U+2502">>,
           double |-> <<"U+2554", "U+2557", "U+255A", "U+255D", "U+2550", "U+2551">>,
           rounded |-> <<"U+256D", "U+256E", "U+2570", "U+256F", "U+2500", "U+2502">>,
           heavy |-> <<"U+250F", "U+2513", "U+2517", "U+251B", "U+2501", "U+2503">>]

\* Box.STYLES.get(style, Box.STYLES["single"])
glyphs(style_name) ==
    IF style_name \in DOMAIN STYLES THEN STYLES[style_name] ELSE STYLES["single"]

RECURSIVE max_len_of(_)
\* max(len(line) for line in lines), lines not empty
max_len_of(lines) ==
    IF Len(lines) = 1 THEN Len(lines[1])
    ELSE LET m == max_len_of(Tail(lines))
         IN  IF Len(lines[1]) > m THEN Len(lines[1]) ELSE m

\* width or max_len + 4: width is <<>> (None) or <<n>>, and 0 is falsy
width_or(width, max_len) ==
    IF width # <<>> /\ width[1] # 0 THEN width[1] ELSE max_len + 4

padded_cut(line, inner_width) ==
    IF Len(line) > inner_width /\ inner_width >= 0
    THEN SubSeq(line, 1, inner_width) ELSE ljust(line, inner_width)
\* padded = line.ljust(inner_width)
padded(line, inner_width) == ljust(line, inner_width)

\* draw(content, width, style): the string returned
draw(content, width, style_name) ==
    LET g == glyphs(style_name)
        tl == g[1]
        tr == g[2]
        bl == g[3]
        br == g[4]
        h == g[5]
        v == g[6]
        lines == split(content, "\n")
        max_len == max_len_of(lines)
        inner_width == width_or(width, max_len) - 2
        rows == [i \in 1..Len(lines) |-> <<v>> \o padded(lines[i], inner_width) \o <<v>>]
        result == <<<<tl>> \o Repeat(h, inner_width) \o <<tr>>>>
                      \o rows
                      \o <<<<bl>> \o Repeat(h, inner_width) \o <<br>>>>
    IN  join(<<"\n">>, result)

---------------------------------------------------------------------------
(* The calls a program makes, one action each.  A call records, in call,   *)
(* its name, its arguments and the state it began in.                      *)

Messages == {<<>>, <<"m">>}
Titles == {<<>>, <<"t">>}
Texts == {<<>>, <<"X">>}
RGBs == {<<0, 0, 0>>, <<255, 128, 7>>}
StyleNames == {"single", "double", "rounded", "heavy", "dotted"}

\* the strings of at most n characters of the alphabet
RECURSIVE Strings(_, _)
Strings(alphabet, n) ==
    IF n = 0 THEN {<<>>}
    ELSE LET shorter == Strings(alphabet, n - 1)
         IN  shorter \cup {Append(t, c) : t \in shorter, c \in alphabet}

Opt(S) == {<<>>} \cup {<<x>> : x \in S}

Began(name, args) ==
    [name |-> name, args |-> args, isatty |-> isatty,
     stream |-> stream, pb |-> pb, sp |-> sp]

\* a Terminal call that writes and returns None
Writes(name, args, s) ==
    /\ fuel' = fuel - 1
    /\ call' = Began(name, args)
    /\ stream' = s
    /\ ret' = <<>>
    /\ raised' = ""
    /\ UNCHANGED <<isatty, is_tty, pb, sp>>

\* a call that returns a string and writes nothing
Returns(name, args, value) ==
    /\ fuel' = fuel - 1
    /\ call' = Began(name, args)
    /\ ret' = value
    /\ raised' = ""
    /\ UNCHANGED <<isatty, is_tty, stream, pb, sp>>

\* a ProgressBar call, whose result is r
Bar(name, args, r) ==
    /\ fuel' = fuel - 1
    /\ call' = Began(name, args)
    /\ pb' = r.pb
    /\ stream' = r.stream
    /\ raised' = r.raised
    /\ ret' = <<>>
    /\ UNCHANGED <<isatty, is_tty, sp>>

\* a Spinner call, whose result is r
Spins(name, args, r) ==
    /\ fuel' = fuel - 1
    /\ call' = Began(name, args)
    /\ sp' = r.sp
    /\ stream' = r.stream
    /\ raised' = ""
    /\ ret' = <<>>
    /\ UNCHANGED <<isatty, is_tty, pb>>

Clear == fuel > 0 /\ Writes("clear", <<>>, clear(stream))
ClearLine == fuel > 0 /\ Writes("clear_line", <<>>, clear_line(stream))
ClearToEnd == fuel > 0 /\ Writes("clear_to_end", <<>>, clear_to_end(stream))
Move ==
    fuel > 0 /\ \E row, col \in 0..MaxCoord :
        Writes("move", <<row, col>>, move(stream, row, col))
MoveUp ==
    fuel > 0 /\ \E n \in 0..MaxCoord : Writes("move_up", <<n>>, move_up(stream, n))
MoveDown ==
    fuel > 0 /\ \E n \in 0..MaxCoord : Writes("move_down", <<n>>, move_down(stream, n))
MoveRight ==
    fuel > 0 /\ \E n \in 0..MaxCoord : Writes("move_right", <<n>>, move_right(stream, n))
MoveLeft ==
    fuel > 0 /\ \E n \in 0..MaxCoord : Writes("move_left", <<n>>, move_left(stream, n))
MoveToColumn ==
    fuel > 0 /\ \E col \in 0..MaxCoord :
        Writes("move_to_column", <<col>>, move_to_column(stream, col))
SaveCursor == fuel > 0 /\ Writes("save_cursor", <<>>, save_cursor(stream))
RestoreCursor == fuel > 0 /\ Writes("restore_cursor", <<>>, restore_cursor(stream))
HideCursor == fuel > 0 /\ Writes("hide_cursor", <<>>, hide_cursor(stream))
ShowCursor == fuel > 0 /\ Writes("show_cursor", <<>>, show_cursor(stream))
SetTitle ==
    fuel > 0 /\ \E title \in Titles : Writes("set_title", <<title>>, set_title(stream, title))
Bell == fuel > 0 /\ Writes("bell", <<>>, bell(stream))

StyleCall(tuples) ==
    fuel > 0 /\ \E styles \in tuples : Returns("style", <<styles>>, style(styles))
Fg(palette) == fuel > 0 /\ \E color \in palette : Returns("fg", <<color>>, fg(color))
Bg(palette) == fuel > 0 /\ \E color \in palette : Returns("bg", <<color>>, bg(color))
RgbFg ==
    fuel > 0 /\ \E c \in RGBs : Returns("rgb_fg", c, rgb_fg(c[1], c[2], c[3]))
RgbBg ==
    fuel > 0 /\ \E c \in RGBs : Returns("rgb_bg", c, rgb_bg(c[1], c[2], c[3]))
Reset == fuel > 0 /\ Returns("reset", <<>>, reset)
Colored(palette, tuples) ==
    fuel > 0 /\ \E text \in Texts, fgc \in Opt(palette), bgc \in Opt(palette),
                   styles \in tuples :
        Returns("colored", <<text, fgc, bgc, styles>>, colored(text, fgc, bgc, styles))

Update ==
    fuel > 0 /\ \E current \in Opt(-1..(pb.total + 1)), message \in Messages :
        Bar("update", <<current, message>>, update(pb, stream, current, message))
Finish ==
    fuel > 0 /\ \E message \in Messages \cup {<<"D", "o", "n", "e", "!">>} :
        Bar("finish", <<message>>, finish(pb, stream, message))

Spin == fuel > 0 /\ Spins("spin", <<>>, spin(sp, stream))
Stop(messages) ==
    fuel > 0 /\ \E message \in messages :
        Spins("stop", <<message>>, stop(sp, stream, message))

Draw ==
    fuel > 0 /\ \E content \in Strings({"a", "b", "\n"}, MaxContent),
                   width \in Opt(-1..MaxBoxWidth), style_name \in StyleNames :
        Returns("draw", <<content, width, style_name>>, draw(content, width, style_name))

\* the stream is redirected, or attached to a terminal, behind the Terminal
Redirect == isatty' = ~isatty /\ UNCHANGED <<is_tty, stream, pb, sp, call, ret, raised, fuel>>

---------------------------------------------------------------------------
(* Specifications. *)

\* Terminal(stream), ProgressBar(total, width, term), Spinner(message, term)
Constructed(totals, widths, messages, calls) ==
    /\ isatty \in BOOLEAN
    /\ is_tty = isatty
    /\ stream = <<>>
    /\ pb \in {ProgressBar(total, width) : total \in totals, width \in widths}
    /\ sp \in {Spinner(message) : message \in messages}
    /\ call = [name |-> "init", args |-> <<>>, isatty |-> isatty,
               stream |-> <<>>, pb |-> pb, sp |-> sp]
    /\ ret = <<>>
    /\ raised = ""
    /\ fuel = calls

FewStyles == {<<>>, <<"BOLD", "UNDERLINE">>}
AllStyles == {<<>>} \cup {<<a>> : a \in Styles} \cup {<<a, b>> : a, b \in Styles}

\* The whole toolkit on one stream.
Init == Constructed(0..MaxTotal, {2}, {<<"L">>}, MaxCalls)

Next ==
    \/ Clear \/ ClearLine \/ ClearToEnd
    \/ Move \/ MoveUp \/ MoveDown \/ MoveRight \/ MoveLeft \/ MoveToColumn
    \/ SaveCursor \/ RestoreCursor \/ HideCursor \/ ShowCursor
    \/ SetTitle \/ Bell
    \/ StyleCall(FewStyles) \/ Fg({"RED"}) \/ Bg({"RED"}) \/ RgbFg \/ RgbBg \/ Reset
    \/ Colored({"RED"}, FewStyles)
    \/ Update \/ Finish
    \/ Spin \/ Stop(Opt(Messages))

Spec == Init /\ [][Next]_vars

\* The toolkit on a stream whose interactive status changes behind it.
InitRedirect == Constructed(0..MaxTotal, {2}, {<<"L">>}, MaxRedirectCalls)

NextRedirect == Next \/ Redirect

SpecRedirect == InitRedirect /\ [][NextRedirect]_vars

\* A ProgressBar redrawn several times.
InitRedraw == Constructed(0..MaxTotal, {2}, {<<"L">>}, MaxUpdates)

NextRedraw == Update \/ Finish

SpecRedraw == InitRedraw /\ [][NextRedraw]_vars

\* One call of a ProgressBar over a range of totals and widths.
InitBar ==
    /\ Constructed(-1..MaxBarTotal, (0..MaxBarWidth) \cup {DefaultWidth}, {<<"L">>}, 1)
    /\ ~isatty

NextBar == Update \/ Finish

SpecBar == InitBar /\ [][NextBar]_vars

\* A Spinner through more than one cycle of its frames.
InitSpin == Constructed({1}, {1}, {<<"L">>}, MaxSpins)

NextSpin == Spin \/ Stop({<<<<"m">>>>})

SpecSpin == InitSpin /\ [][NextSpin]_vars

\* One call of the styling functions over every Color and Style.
InitStyle == Constructed({1}, {1}, {<<"L">>}, 1)

NextStyle ==
    \/ StyleCall(AllStyles) \/ Fg(Colors) \/ Bg(Colors) \/ Reset
    \/ Colored(Colors, AllStyles)

SpecStyle == InitStyle /\ [][NextStyle]_vars

\* One call of Box.draw.
InitBox == Constructed({1}, {1}, {<<"L">>}, 1)

NextBox == Draw

SpecBox == InitBox /\ [][NextBox]_vars

---------------------------------------------------------------------------
(* What the claims are stated in: the text the last call wrote, and the    *)
(* parts of a bar line.                                                    *)

Written == SubSeq(stream, Len(call.stream) + 1, Len(stream))

\* n copies of c; none when n < 1
Glyphs(c, n) == [i \in 1..n |-> c]

Count(s, c) == Cardinality({i \in 1..Len(s) : s[i] = c})

EndsWith(s, t) == Len(s) >= Len(t) /\ SubSeq(s, Len(s) - Len(t) + 1, Len(s)) = t

CursorUp1 == <<"ESC", "[", "1", "A">>
EraseLine == <<"ESC", "[", "2", "K">>
Column1 == <<"ESC", "[", "1", "G">>
SgrReset == <<"ESC", "[", "0", "m">>

BarCalls == {"update", "finish"}

\* a bar line: "[", no escape, and one newline, which ends it
IsBarLine(t) ==
    /\ Len(t) >= 2
    /\ t[1] = "["
    /\ t[Len(t)] = "\n"
    /\ Count(t, "\n") = 1
    /\ ~Has(t, "ESC")

\* the bar line of the last ProgressBar call: what it wrote after the
\* cursor sequences of a redraw
BarLine ==
    IF is_tty /\ call.pb.started THEN SubSeq(Written, 9, Len(Written)) ELSE Written

CloseAt == CHOOSE k \in 1..Len(BarLine) :
               BarLine[k] = "]" /\ \A j \in 1..(k - 1) : BarLine[j] # "]"

\* the glyphs between "[" and "]"
BarGlyphs == SubSeq(BarLine, 2, CloseAt - 1)

\* the text after "] ", up to and with the "%"
PctText == SubSeq(BarLine, CloseAt + 2, CloseAt + 7)

\* floor(width * current / total), total > 0
FloorFilled == (pb.width * pb.current) \div pb.total

BarIs(filled) ==
    BarGlyphs = Glyphs(FILLED, filled) \o Glyphs(UNFILLED, pb.width - filled)

---------------------------------------------------------------------------
(* C1.  On a Terminal constructed on a non-interactive stream, whatever    *)
(* the cursor and clearing operations, ProgressBar.update/finish and       *)
(* Spinner.spin/stop wrote holds no ESC: no such call writes one, and a    *)
(* stream no set_title or bell wrote to (no BEL in it) holds none at all.  *)
(* style, fg, bg, rgb_fg, rgb_bg and reset return the empty string, and    *)
(* colored returns its text unchanged.                                     *)

EscapeCalls ==
    {"clear", "clear_line", "clear_to_end", "move", "move_up", "move_down",
     "move_left", "move_right", "move_to_column", "save_cursor",
     "restore_cursor", "hide_cursor", "show_cursor"}

C1_NoEscapeOffTty ==
    ~is_tty =>
        /\ call.name \in EscapeCalls \cup BarCalls \cup {"spin", "stop"}
               => ~Has(Written, "ESC")
        /\ ~Has(stream, "BEL") => ~Has(stream, "ESC")
        /\ call.name \in {"style", "fg", "bg", "rgb_fg", "rgb_bg", "reset"}
               => ret = <<>>
        /\ call.name = "colored" => ret = call.args[1]

\* the second update of a bar on a non-interactive stream
C1_Witness ==
    ~is_tty /\ call.name = "update" /\ call.pb.started /\ ~Has(stream, "BEL")

---------------------------------------------------------------------------
(* C2.  In a run of update/finish calls on one ProgressBar: the first call *)
(* writes the bar line alone; on a TTY every later call writes CSI 1A and  *)
(* CSI 2K and then its bar line; off a TTY the n calls made so far have    *)
(* written n bar lines and nothing else.                                   *)

CallsMade == MaxUpdates - fuel

RECURSIVE AllBarLines(_)
\* s is a sequence of bar lines
AllBarLines(s) ==
    \/ Len(s) = 0
    \/ /\ Has(s, "\n")
       /\ LET k == CHOOSE i \in 1..Len(s) :
                       s[i] = "\n" /\ \A j \in 1..(i - 1) : s[j] # "\n"
          IN  IsBarLine(SubSeq(s, 1, k)) /\ AllBarLines(SubSeq(s, k + 1, Len(s)))

C2_Redraw ==
    /\ CallsMade = 1 => call.name \in BarCalls /\ Written = stream /\ IsBarLine(stream)
    /\ CallsMade > 1 /\ is_tty =>
           /\ SubSeq(Written, 1, 8) = CursorUp1 \o EraseLine
           /\ IsBarLine(SubSeq(Written, 9, Len(Written)))
    /\ ~is_tty => Count(stream, "\n") = CallsMade /\ AllBarLines(stream)

\* a third call on a TTY
C2_Witness == is_tty /\ CallsMade = 3 /\ call.name = "finish"

---------------------------------------------------------------------------
(* C3, as claimed.  For every update with total > 0 the bar is width       *)
(* glyphs long: floor(width * current / total) filled glyphs, then         *)
(* unfilled glyphs for the remainder.                                      *)

---------------------------------------------------------------------------
(* C4.  On a TTY colored(text, fg, bg, *styles) is the style sequence if   *)
(* styles are given, the fg sequence if fg is given, the bg sequence if bg *)
(* is given, the text, and one reset CSI 0m, in that order; and            *)
(* colored("X", fg=RED) is CSI 31m X CSI 0m.                               *)

Sgr(codes) == <<"ESC", "[">> \o codes \o <<"m">>

C4_Colored ==
    call.name = "colored" /\ is_tty =>
        LET text == call.args[1]
            fgc == call.args[2]
            bgc == call.args[3]
            styles == call.args[4]
            s == IF styles = <<>> THEN <<>>
                 ELSE Sgr(join(<<";">>, [i \in 1..Len(styles) |-> Style[styles[i]]]))
            f == IF fgc = <<>> THEN <<>> ELSE Sgr(Color[fgc[1]])
            b == IF bgc = <<>> THEN <<>>
                 ELSE Sgr(str(int_of_str(Color[bgc[1]]) + 10))
        IN  /\ ret = s \o f \o b \o text \o SgrReset
            /\ call.args = <<<<"X">>, <<"RED">>, <<>>, <<>>>>
                   => ret = <<"ESC", "[", "3", "1", "m", "X", "ESC", "[", "0", "m">>

\* colored with nothing but the text, on a TTY
C4_Witness ==
    /\ is_tty /\ call.name = "colored"
    /\ call.args[2] = <<>> /\ call.args[3] = <<>> /\ call.args[4] = <<>>
    /\ ret = call.args[1] \o SgrReset

---------------------------------------------------------------------------
(* C5.  The n-th spin() of a Spinner writes move-to-column-0, clear-line   *)
(* and FRAMES[(n-1) mod 10], a space and the message, without a newline,   *)
(* and advances the frame counter by one; stop() leaves the counter alone. *)
(* The 11th spin shows the frame of the 1st.                               *)

\* the spins made so far, counted on the stream: each wrote one frame glyph
SpinsMade ==
    Cardinality({i \in 1..Len(stream) : \E j \in 1..Len(FRAMES) : stream[i] = FRAMES[j]})

C5_Spin ==
    /\ sp.frame = SpinsMade
    /\ call.name = "spin" =>
           /\ sp.frame = call.sp.frame + 1
           /\ Written = (IF is_tty THEN Column1 \o EraseLine ELSE <<>>)
                            \o <<FRAMES[((SpinsMade - 1) % 10) + 1], " ">>
                            \o sp.message
           /\ SpinsMade = 11 => EndsWith(Written, <<FRAMES[1], " ">> \o sp.message)
    /\ call.name = "stop" => sp.frame = call.sp.frame

\* the 11th spin
C5_Witness == call.name = "spin" /\ SpinsMade = 11

---------------------------------------------------------------------------
(* C6.  finish(message) from a ProgressBar state leaves the current and    *)
(* started values, and writes the text, that update(total, message) from   *)
(* that state does.                                                        *)

C6_FinishIsUpdate ==
    call.name = "finish" =>
        LET r == update(call.pb, call.stream, <<call.pb.total>>, call.args[1])
        IN  pb = r.pb /\ stream = r.stream /\ raised = r.raised

\* finish on a TTY of a started bar that is not at its total
C6_Witness ==
    /\ call.name = "finish" /\ is_tty
    /\ call.pb.started /\ call.pb.current # call.pb.total
    /\ pb.current = pb.total

---------------------------------------------------------------------------
(* C7.  With total = 0 an update, whatever current is, does not raise and  *)
(* renders "  0.0%" after a bar of width unfilled glyphs.                  *)

C7_ZeroTotal ==
    call.name \in BarCalls /\ pb.total = 0 =>
        /\ raised = ""
        /\ BarGlyphs = Glyphs(UNFILLED, pb.width)
        /\ PctText = <<" ", " ", "0", ".", "0", "%">>

\* update(1) of a bar of total 0 and a positive width
C7_Witness ==
    /\ call.name = "update" /\ pb.total = 0 /\ pb.current = 1 /\ pb.width > 0
    /\ raised = ""

---------------------------------------------------------------------------
(* C8.  set_title(title) writes ESC ]0; title BEL and bell() writes BEL,   *)
(* whether or not the stream is a TTY.                                     *)

C8_TitleAndBellAlways ==
    /\ call.name = "set_title" =>
           Written = <<"ESC", "]", "0", ";">> \o call.args[1] \o <<"BEL">>
    /\ call.name = "bell" => Written = <<"BEL">>

\* set_title off a TTY
C8_Witness == ~is_tty /\ call.name = "set_title" /\ call.args[1] # <<>>

---------------------------------------------------------------------------
(* C9.  is_tty never changes once the Terminal is constructed: no call     *)
(* and no change of the stream's interactive status changes it, and what   *)
(* a call writes or returns goes by is_tty, not by the stream's status at  *)
(* the call.                                                               *)

C9_ByIsTty ==
    /\ call.name \in EscapeCalls => (Has(Written, "ESC") <=> is_tty)
    /\ call.name \in {"fg", "bg", "rgb_fg", "rgb_bg", "reset"}
           => (Has(ret, "ESC") <=> is_tty)
    /\ call.name \in BarCalls /\ call.pb.started => (Has(Written, "ESC") <=> is_tty)
    /\ call.name \in {"spin", "stop"} => (Has(Written, "ESC") <=> is_tty)

C9_Snapshot == [][is_tty' = is_tty]_vars /\ []C9_ByIsTty

\* a call made after the stream's status changed
C9_Witness == call.name = "clear_line" /\ call.isatty # is_tty /\ is_tty

---------------------------------------------------------------------------
(* C10.  Box.draw(content, width, style) writes nothing and returns the    *)
(* content's lines + 2 rows joined by newlines: a top and a bottom border  *)
(* of a corner, inner_width horizontal glyphs and a corner, and between    *)
(* them a row per content line, in order: the vertical glyph, the line     *)
(* padded with spaces to inner_width and never cut, the vertical glyph.    *)
(* inner_width is (width or max_line_length + 4) - 2, and an unknown style *)
(* draws with the glyphs of "single".                                      *)

C10_Draw ==
    call.name = "draw" =>
        LET content == call.args[1]
            width == call.args[2]
            g == IF call.args[3] \in {"single", "double", "rounded", "heavy"}
                 THEN STYLES[call.args[3]] ELSE STYLES["single"]
            lines == split(content, "\n")
            longest == CHOOSE n \in 0..Len(content) :
                           /\ \E i \in 1..Len(lines) : Len(lines[i]) = n
                           /\ \A i \in 1..Len(lines) : Len(lines[i]) <= n
            inner_width == (IF width = <<>> \/ width = <<0>> THEN longest + 4
                            ELSE width[1]) - 2
            rows == split(ret, "\n")
        IN  /\ stream = call.stream
            /\ Len(lines) = Count(content, "\n") + 1
            /\ Len(rows) = Len(lines) + 2
            /\ rows[1] = <<g[1]>> \o Glyphs(g[5], inner_width) \o <<g[2]>>
            /\ rows[Len(rows)] = <<g[3]>> \o Glyphs(g[5], inner_width) \o <<g[4]>>
            /\ \A i \in 1..Len(lines) :
                   rows[i + 1] = <<g[6]>> \o lines[i]
                                     \o Glyphs(" ", inner_width - Len(lines[i]))
                                     \o <<g[6]>>

\* an unknown style, two lines, and a width the content overflows
C10_Witness ==
    /\ call.name = "draw"
    /\ call.args[3] = "dotted"
    /\ Count(call.args[1], "\n") = 1
    /\ call.args[2] # <<>> /\ call.args[2] # <<0>>
    /\ \E i \in 1..2 : Len(split(call.args[1], "\n")[i]) > call.args[2][1] - 2

===========================================================================
